---- MODULE Spec2Model ----
(***************************************************************************)
(* Model of the smart-agent-router decision-and-accounting pipeline:       *)
(* InputGuard, QueryRouter.classify, LLMClient, OutputGuard,               *)
(* SmartRouterPipeline.run, the process_query handler and CostTracker.     *)
(*                                                                         *)
(* Text is a sequence of one-character strings.  The router tier's output  *)
(* is a sequence of JSON lexemes (records), see RouterLexemes.  Money is   *)
(* an integer number of nano-dollars (1e-9 USD); rates are micro-dollars   *)
(* per 1000 tokens, so tokens * rate is a cost in nano-dollars.            *)
(* Confidence is an integer number of hundredths.  cost_savings_pct is an  *)
(* integer number of tenths of a percent.                                  *)
(***************************************************************************)
EXTENDS Integers, Sequences, FiniteSets, TLC

\* Number of overlapping requests served by the one event loop.
NReq == 2
\* Most operations applied to the cost tracker in the tracker specification.
MaxOps == 4
\* Longest prose/fence wrapper put before and after a router payload.
MaxWrap == 1

Reqs == 1..NReq

Tiers == {"router", "small", "large"}

Min(a, b) == IF a < b THEN a ELSE b
Max(a, b) == IF a > b THEN a ELSE b

(***************************************************************************)
(* Python str primitives on sequences of characters.                       *)
(***************************************************************************)
UpperChars == <<"A","B","C","D","E","F","G","H","I","J","K","L","M",
                "N","O","P","Q","R","S","T","U","V","W","X","Y","Z">>
LowerChars == <<"a","b","c","d","e","f","g","h","i","j","k","l","m",
                "n","o","p","q","r","s","t","u","v","w","x","y","z">>

LowerChar(c) ==
    IF \E i \in 1..Len(UpperChars) : UpperChars[i] = c
    THEN LowerChars[CHOOSE i \in 1..Len(UpperChars) : UpperChars[i] = c]
    ELSE c

\* str.lower()
Lower(s) == [i \in 1..Len(s) |-> LowerChar(s[i])]

Whitespace == {" ", "\n", "\t"}

\* str.strip()
Strip(s) ==
    LET keep == {i \in 1..Len(s) : s[i] \notin Whitespace}
    IN  IF keep = {} THEN <<>>
        ELSE LET lo == CHOOSE i \in keep : \A j \in keep : i <= j
                 hi == CHOOSE i \in keep : \A j \in keep : j <= i
             IN  SubSeq(s, lo, hi)

\* s[i..] starts with p (i is 1-based)
MatchAt(s, p, i) ==
    /\ i >= 1
    /\ i + Len(p) - 1 <= Len(s)
    /\ \A k \in 1..Len(p) : s[i + k - 1] = p[k]

\* p in s
Contains(s, p) == \E i \in 1..(Len(s) + 1) : MatchAt(s, p, i)

\* s[:k] with Python's meaning of a negative k
SliceTo(s, k) ==
    IF k >= 0 THEN SubSeq(s, 1, Min(k, Len(s)))
    ELSE SubSeq(s, 1, Max(Len(s) + k, 0))

\* s.rfind(c) for a one-character c: a 0-based index, or -1
RFind(s, c) ==
    LET hits == {i \in 1..Len(s) : s[i] = c}
    IN  IF hits = {} THEN -1
        ELSE (CHOOSE i \in hits : \A j \in hits : j <= i) - 1

(***************************************************************************)
(* round(): Python rounds to the nearest, ties to even.                    *)
(***************************************************************************)
\* n / d rounded to the nearest integer, ties to even (d > 0)
RoundDiv(n, d) ==
    LET q == n \div d
        r == n - q * d
    IN  IF 2 * r < d THEN q
        ELSE IF 2 * r > d THEN q + 1
        ELSE IF q % 2 = 0 THEN q ELSE q + 1

\* round(x, 6) of an amount held in nano-dollars
Round6(nano) == RoundDiv(nano, 1000) * 1000


(***************************************************************************)
(* Configuration (configs/config.yaml and configs/prompts.yaml, read by    *)
(* load_yaml_config / load_prompts).  The files are external input: the    *)
(* model runs under each configuration of Configs.                         *)
(***************************************************************************)
ModelConfig(name, cin, cout) ==
    [name |-> name, cost_per_1k_input |-> cin, cost_per_1k_output |-> cout]

Gemini15Flash == <<"g","e","m","i","n","i","-","1",".","5","-","f","l","a","s","h">>
Gemini15Pro == <<"g","e","m","i","n","i","-","1",".","5","-","p","r","o">>
Gemini25Flash == <<"g","e","m","i","n","i","-","2",".","5","-","f","l","a","s","h">>
Gemini20FlashLite == <<"g","e","m","i","n","i","-","2",".","0","-","f","l","a","s","h","-","l","i","t","e">>

\* The defaults of Settings: flash for router and small, pro for large.
ConfigDefault ==
    [models |-> [router |-> ModelConfig(Gemini15Flash, 75, 300),
                 small  |-> ModelConfig(Gemini15Flash, 75, 300),
                 large  |-> ModelConfig(Gemini15Pro, 1250, 5000)],
     confidence_threshold |-> 70,
     max_input_length |-> 16,
     max_output_length |-> 60,
     router_system |-> <<"R">>,
     agent_system |-> <<"A", "G">>]

\* A newer model family: the large tier is a "flash" model too.
ConfigFlashFamily ==
    [models |-> [router |-> ModelConfig(Gemini20FlashLite, 75, 300),
                 small  |-> ModelConfig(Gemini20FlashLite, 75, 300),
                 large  |-> ModelConfig(Gemini25Flash, 300, 2500)],
     confidence_threshold |-> 50,
     max_input_length |-> 12,
     max_output_length |-> 40,
     router_system |-> <<"R">>,
     agent_system |-> <<"A", "G">>]

\* A configuration whose large tier gives no rates (.get(..., 0) applies).
ConfigNoRates ==
    [ConfigDefault EXCEPT !.models.large = ModelConfig(Gemini15Pro, 0, 0)]

Configs == {ConfigDefault, ConfigFlashFamily}

(***************************************************************************)
(* InputGuard (src/guardrails/input_guard.py)                              *)
(***************************************************************************)
InjectionPatterns ==
    { <<"i","g","n","o","r","e"," ","p","r","e","v","i","o","u","s"," ","i","n","s","t","r","u","c","t","i","o","n","s">>,
      <<"i","g","n","o","r","e"," ","a","l","l"," ","i","n","s","t","r","u","c","t","i","o","n","s">>,
      <<"d","i","s","r","e","g","a","r","d"," ","y","o","u","r"," ","i","n","s","t","r","u","c","t","i","o","n","s">>,
      <<"y","o","u"," ","a","r","e"," ","n","o","w">>,
      <<"n","e","w"," ","i","n","s","t","r","u","c","t","i","o","n","s",":">> }

ErrEmpty == "Query cannot be empty."
ErrTooLong == "Query exceeds maximum length"
ErrDisallowed == "Query contains disallowed patterns."

\* Faulty variant of Validate: the accepted query is returned untrimmed.
ValidateUntrimmed(query, max_input_length) ==
    IF Len(query) = 0 \/ Len(Strip(query)) = 0
    THEN [ok |-> FALSE, error |-> ErrEmpty, value |-> <<>>]
    ELSE IF Len(query) > max_input_length
    THEN [ok |-> FALSE, error |-> ErrTooLong, value |-> <<>>]
    ELSE IF \E p \in InjectionPatterns : Contains(Lower(query), p)
    THEN [ok |-> FALSE, error |-> ErrDisallowed, value |-> <<>>]
    ELSE [ok |-> TRUE, error |-> "", value |-> query]

\* Faulty variant of Validate: the injection phrases are looked for before
\* the length is checked.
ValidatePatternsFirst(query, max_input_length) ==
    IF Len(query) = 0 \/ Len(Strip(query)) = 0
    THEN [ok |-> FALSE, error |-> ErrEmpty, value |-> <<>>]
    ELSE IF \E p \in InjectionPatterns : Contains(Lower(query), p)
    THEN [ok |-> FALSE, error |-> ErrDisallowed, value |-> <<>>]
    ELSE IF Len(query) > max_input_length
    THEN [ok |-> FALSE, error |-> ErrTooLong, value |-> <<>>]
    ELSE [ok |-> TRUE, error |-> "", value |-> Strip(query)]

\* Faulty variant of Validate: the injection phrases are looked for in the
\* query as typed.
ValidateCaseSensitive(query, max_input_length) ==
    IF Len(query) = 0 \/ Len(Strip(query)) = 0
    THEN [ok |-> FALSE, error |-> ErrEmpty, value |-> <<>>]
    ELSE IF Len(query) > max_input_length
    THEN [ok |-> FALSE, error |-> ErrTooLong, value |-> <<>>]
    ELSE IF \E p \in InjectionPatterns : Contains(query, p)
    THEN [ok |-> FALSE, error |-> ErrDisallowed, value |-> <<>>]
    ELSE [ok |-> TRUE, error |-> "", value |-> Strip(query)]

\* Faulty variant of Validate: only the empty string counts as empty.
ValidateBlankAccepted(query, max_input_length) ==
    IF Len(query) = 0
    THEN [ok |-> FALSE, error |-> ErrEmpty, value |-> <<>>]
    ELSE IF Len(query) > max_input_length
    THEN [ok |-> FALSE, error |-> ErrTooLong, value |-> <<>>]
    ELSE IF \E p \in InjectionPatterns : Contains(Lower(query), p)
    THEN [ok |-> FALSE, error |-> ErrDisallowed, value |-> <<>>]
    ELSE [ok |-> TRUE, error |-> "", value |-> Strip(query)]

\* InputGuard.validate: [ok, error, value]
Validate(query, max_input_length) ==
    IF Len(query) = 0 \/ Len(Strip(query)) = 0
    THEN [ok |-> FALSE, error |-> ErrEmpty, value |-> <<>>]
    ELSE IF Len(query) > max_input_length
    THEN [ok |-> FALSE, error |-> ErrTooLong, value |-> <<>>]
    ELSE IF \E p \in InjectionPatterns : Contains(Lower(query), p)
    THEN [ok |-> FALSE, error |-> ErrDisallowed, value |-> <<>>]
    ELSE [ok |-> TRUE, error |-> "", value |-> Strip(query)]

(***************************************************************************)
(* OutputGuard (src/guardrails/output_guard.py)                            *)
(***************************************************************************)
Apology ==
    <<"I"," ","w","a","s","n","'","t"," ","a","b","l","e"," ","t","o"," ","g","e","n","e","r","a","t","e"," ","a"," ","r","e","s","p","o","n","s","e","."," ","P","l","e","a","s","e"," ","t","r","y"," ","a","g","a","i","n",".">>
TruncationMarker == <<"\n","\n","[","R","e","s","p","o","n","s","e"," ","t","r","u","n","c","a","t","e","d"," ","d","u","e"," ","t","o"," ","l","e","n","g","t","h",".","]">>

LeakPatterns ==
    << <<<<"<","|","s","y","s","t","e","m","|",">">>, <<"<","|","/","s","y","s","t","e","m","|",">">>>>,
       <<<<"[","I","N","S","T","]">>, <<"[","/","I","N","S","T","]">>>>,
       <<<<"<","<","S","Y","S",">",">">>, <<"<","<","/","S","Y","S",">",">">>>> >>

\* re.sub(open.*?close, "", text, flags=re.DOTALL): leftmost, non-greedy,
\* non-overlapping.
RECURSIVE RemoveSpans(_, _, _)
RemoveSpans(text, open, close) ==
    LET starts == {i \in 1..Len(text) :
                     /\ MatchAt(text, open, i)
                     /\ \E j \in (i + Len(open))..Len(text) : MatchAt(text, close, j)}
    IN  IF starts = {} THEN text
        ELSE LET i == CHOOSE a \in starts : \A b \in starts : a <= b
                 ends == {j \in (i + Len(open))..Len(text) : MatchAt(text, close, j)}
                 j == CHOOSE a \in ends : \A b \in ends : a <= b
             IN  SubSeq(text, 1, i - 1)
                   \o RemoveSpans(SubSeq(text, j + Len(close), Len(text)), open, close)

\* OutputGuard._remove_instruction_leakage
RemoveInstructionLeakage(text) ==
    LET t1 == RemoveSpans(text, LeakPatterns[1][1], LeakPatterns[1][2])
        t2 == RemoveSpans(t1, LeakPatterns[2][1], LeakPatterns[2][2])
    IN  RemoveSpans(t2, LeakPatterns[3][1], LeakPatterns[3][2])

\* Faulty variant of Sanitize: an empty output is passed on as it is.
SanitizeEmptyKept(output, max_output_length) ==
    LET stripped == RemoveInstructionLeakage(Strip(output))
    IN  IF Len(stripped) > max_output_length
        THEN LET cut == SliceTo(stripped, max_output_length - 50)
                 last_sentence == RFind(cut, ".")
                 kept == IF 10 * last_sentence > 8 * Len(cut)
                         THEN SliceTo(cut, last_sentence + 1)
                         ELSE cut
             IN  kept \o TruncationMarker
        ELSE stripped

\* Faulty variant of Sanitize: a text cut at the end of a sentence gets no marker.
SanitizeSentenceUnmarked(output, max_output_length) ==
    IF Len(output) = 0 THEN Apology
    ELSE LET stripped == RemoveInstructionLeakage(Strip(output))
         IN  IF Len(stripped) > max_output_length
             THEN LET cut == SliceTo(stripped, max_output_length - 50)
                      last_sentence == RFind(cut, ".")
                  IN  IF 10 * last_sentence > 8 * Len(cut)
                      THEN SliceTo(cut, last_sentence + 1)
                      ELSE cut \o TruncationMarker
             ELSE stripped

\* OutputGuard.sanitize
Sanitize(output, max_output_length) ==
    IF Len(output) = 0 THEN Apology
    ELSE LET stripped == RemoveInstructionLeakage(Strip(output))
         IN  IF Len(stripped) > max_output_length
             THEN LET cut == SliceTo(stripped, max_output_length - 50)
                      last_sentence == RFind(cut, ".")
                      kept == IF 10 * last_sentence > 8 * Len(cut)
                              THEN SliceTo(cut, last_sentence + 1)
                              ELSE cut
                  IN  kept \o TruncationMarker
             ELSE stripped


(***************************************************************************)
(* safe_json_parse (src/utils/helpers.py).  The router tier's output is a  *)
(* sequence of lexemes:                                                    *)
(*   prose   a run of words holding no brace and no code fence             *)
(*   ws      a run of whitespace                                           *)
(*   fence   a ``` code fence (with its language tag)                      *)
(*   lbrace  {          rbrace  }                                          *)
(*   scalar  a JSON value that is no object: a number, a string, a list    *)
(*   null    the JSON literal null                                         *)
(*   fields  the members of an object, "complexity": cx, "confidence": cf  *)
(* cx is the complexity string, or CxAbsent when the member is missing.    *)
(* cf_kind says what the confidence member is: "absent", "number" (cf is   *)
(* its value in hundredths), "numstr" (a string float() accepts), "text"   *)
(* (a string float() rejects) or "null".                                   *)
(***************************************************************************)
CxAbsent == "<absent>"

Lex(k) == [k |-> k, cx |-> CxAbsent, cf_kind |-> "absent", cf |-> 0]
Fields(cx, cf_kind, cf) == [k |-> "fields", cx |-> cx, cf_kind |-> cf_kind, cf |-> cf]

\* text.strip() on lexemes
StripLex(text) ==
    LET keep == {i \in 1..Len(text) : text[i].k # "ws"}
    IN  IF keep = {} THEN <<>>
        ELSE LET lo == CHOOSE i \in keep : \A j \in keep : i <= j
                 hi == CHOOSE i \in keep : \A j \in keep : j <= i
             IN  SubSeq(text, lo, hi)

\* The lexemes of text that are not whitespace (JSON ignores it between tokens).
RECURSIVE Significant(_)
Significant(text) ==
    IF text = <<>> THEN <<>>
    ELSE IF Head(text).k = "ws" THEN Significant(Tail(text))
    ELSE <<Head(text)>> \o Significant(Tail(text))

NoValue == [ok |-> FALSE, type |-> "", cx |-> CxAbsent, cf_kind |-> "absent", cf |-> 0]

\* json.loads: [ok, type, cx, cf_kind, cf]; ok = FALSE is JSONDecodeError.
JsonLoads(text) ==
    LET t == Significant(text)
    IN  IF Len(t) = 1 /\ t[1].k = "scalar"
        THEN [NoValue EXCEPT !.ok = TRUE, !.type = "other"]
        ELSE IF Len(t) = 1 /\ t[1].k = "null"
        THEN [NoValue EXCEPT !.ok = TRUE, !.type = "null"]
        ELSE IF Len(t) = 2 /\ t[1].k = "lbrace" /\ t[2].k = "rbrace"
        THEN [NoValue EXCEPT !.ok = TRUE, !.type = "object"]
        ELSE IF Len(t) = 3 /\ t[1].k = "lbrace" /\ t[2].k = "fields" /\ t[3].k = "rbrace"
        THEN [ok |-> TRUE, type |-> "object", cx |-> t[2].cx,
              cf_kind |-> t[2].cf_kind, cf |-> t[2].cf]
        ELSE NoValue

\* text.find("{") and text.rfind("}"): 0-based, -1 when missing
FindLex(text, k) ==
    LET hits == {i \in 1..Len(text) : text[i].k = k}
    IN  IF hits = {} THEN -1
        ELSE (CHOOSE i \in hits : \A j \in hits : i <= j) - 1
RFindLex(text, k) ==
    LET hits == {i \in 1..Len(text) : text[i].k = k}
    IN  IF hits = {} THEN -1
        ELSE (CHOOSE i \in hits : \A j \in hits : j <= i) - 1

\* safe_json_parse: the parsed value, or type "null" for None (a parse
\* failure, and also the JSON literal null).
SafeJsonParse(raw) ==
    LET text == StripLex(raw)
        direct == JsonLoads(text)
        start == FindLex(text, "lbrace")
        end == RFindLex(text, "rbrace") + 1
        sliced == JsonLoads(SubSeq(text, start + 1, end))
    IN  IF direct.ok THEN direct
        ELSE IF (\E i \in 1..Len(text) : text[i].k = "fence")
                /\ start # -1 /\ end > start /\ sliced.ok
        THEN sliced
        ELSE [NoValue EXCEPT !.ok = TRUE, !.type = "null"]

(***************************************************************************)
(* QueryRouter.classify (src/agents/agent.py), after the router call.      *)
(***************************************************************************)
ParseFailureReason == "router parse failure - defaulting to large model"

NoDecision == [complexity |-> "", confidence |-> 0, reason |-> "", routed_to |-> ""]

\* Faulty variant of FallbackDecision: the fail-safe picks the cheaper tier.
FallbackDecisionSmall ==
    [complexity |-> "COMPLEX", confidence |-> 50,
     reason |-> ParseFailureReason, routed_to |-> "small"]

\* The decision taken when safe_json_parse returns None
FallbackDecision ==
    [complexity |-> "COMPLEX", confidence |-> 50,
     reason |-> ParseFailureReason, routed_to |-> "large"]

\* Faulty variant of RouteTo: the threshold itself counts as low confidence.
RouteToInclusive(complexity, confidence, confidence_threshold) ==
    IF complexity = "COMPLEX" \/ confidence <= confidence_threshold
    THEN "large" ELSE "small"

\* The routing policy on the parsed complexity and confidence
RouteTo(complexity, confidence, confidence_threshold) ==
    IF complexity = "COMPLEX" \/ confidence < confidence_threshold
    THEN "large" ELSE "small"

\* [raised, exc, decision] from the router's content
ClassifyContent(content, confidence_threshold) ==
    LET parsed == SafeJsonParse(content)
    IN  IF parsed.type = "null"
        THEN [raised |-> FALSE, exc |-> "", decision |-> FallbackDecision]
        ELSE IF parsed.type # "object"
        THEN [raised |-> TRUE, exc |-> "AttributeError", decision |-> NoDecision]
        ELSE IF parsed.cf_kind = "text"
        THEN [raised |-> TRUE, exc |-> "ValueError", decision |-> NoDecision]
        ELSE IF parsed.cf_kind = "null"
        THEN [raised |-> TRUE, exc |-> "TypeError", decision |-> NoDecision]
        ELSE LET complexity == IF parsed.cx = CxAbsent THEN "COMPLEX" ELSE parsed.cx
                 confidence == IF parsed.cf_kind = "absent" THEN 50 ELSE parsed.cf
                 routed_to == RouteTo(complexity, confidence, confidence_threshold)
             IN  [raised |-> FALSE, exc |-> "",
                  decision |-> [complexity |-> complexity, confidence |-> confidence,
                                reason |-> "", routed_to |-> routed_to]]

(***************************************************************************)
(* LLMClient (src/utils/llm_client.py)                                     *)
(***************************************************************************)
\* Faulty variant of GetModel: the cache is never consulted.
GetModelUncached(ms, made, tier) ==
    [models |-> [ms EXCEPT ![tier] = made[tier] + 1],
     constructed |-> [made EXCEPT ![tier] = made[tier] + 1],
     handle |-> made[tier] + 1]

\* _get_model: [models, constructed, handle].  models[tier] = 0 is
\* "tier not in self._models"; a handle is named by the ordinal of the
\* ChatVertexAI construction that made it.
GetModel(ms, made, tier) ==
    IF ms[tier] = 0
    THEN [models |-> [ms EXCEPT ![tier] = made[tier] + 1],
          constructed |-> [made EXCEPT ![tier] = made[tier] + 1],
          handle |-> made[tier] + 1]
    ELSE [models |-> ms, constructed |-> made, handle |-> ms[tier]]

\* estimate_tokens: the tokenizer is external; one token per symbol.
EstimateTokens(text) == Len(text)

\* estimate_cost, in nano-dollars
EstimateCost(cfg, tier, input_tokens, output_tokens) ==
    LET input_cost == input_tokens * cfg.models[tier].cost_per_1k_input
        output_cost == output_tokens * cfg.models[tier].cost_per_1k_output
    IN  Round6(input_cost + output_cost)

NoCall == [tier |-> "", handle |-> 0, input_tokens |-> 0]

NoResponse ==
    [model_name |-> <<>>, input_tokens |-> 0, output_tokens |-> 0,
     total_tokens |-> 0, estimated_cost_usd |-> 0]

\* invoke, from the return of model.ainvoke: the LLMResponse without its content
InvokeResponse(cfg, call, content) ==
    LET output_tokens == EstimateTokens(content)
    IN  [model_name |-> cfg.models[call.tier].name,
         input_tokens |-> call.input_tokens,
         output_tokens |-> output_tokens,
         total_tokens |-> call.input_tokens + output_tokens,
         estimated_cost_usd |->
             EstimateCost(cfg, call.tier, call.input_tokens, output_tokens)]


(***************************************************************************)
(* SmartRouterPipeline.run (src/chains/pipeline.py), pure parts            *)
(***************************************************************************)
NoForce == "<none>"

ContextHeader == <<"C","o","n","t","e","x","t",":","\n">>
QuestionHeader == <<"\n","\n","Q","u","e","s","t","i","o","n",":","\n">>

\* full_prompt; an absent context (None) is the empty sequence
FullPrompt(query, context) ==
    IF Len(context) > 0
    THEN ContextHeader \o context \o QuestionHeader \o query
    ELSE query

NoRouting ==
    [tier |-> "", complexity |-> "", confidence |-> 0,
     routing_tokens |-> 0, routing_cost |-> 0]

\* Faulty variant of ForcedRouting: a forced tier is reported with no confidence.
ForcedRoutingUnsure(force_model) ==
    [tier |-> force_model, complexity |-> "FORCED", confidence |-> 0,
     routing_tokens |-> 0, routing_cost |-> 0]

\* Step 2 with force_model in ("large", "small")
ForcedRouting(force_model) ==
    [tier |-> force_model, complexity |-> "FORCED", confidence |-> 100,
     routing_tokens |-> 0, routing_cost |-> 0]

\* Step 2 after classify returned
ClassifiedRouting(decision, router_response) ==
    [tier |-> decision.routed_to, complexity |-> decision.complexity,
     confidence |-> decision.confidence,
     routing_tokens |-> router_response.total_tokens,
     routing_cost |-> router_response.estimated_cost_usd]

NoResult ==
    [answer |-> <<>>, model_used |-> <<>>, complexity |-> "", confidence |-> 0,
     tokens_used |-> 0, estimated_cost_usd |-> 0]

\* Faulty variant of RunResult: the router call is left out of the totals.
RunResultAnswerOnly(routing, response, answer) ==
    [answer |-> answer,
     model_used |-> response.model_name,
     complexity |-> routing.complexity,
     confidence |-> routing.confidence,
     tokens_used |-> response.total_tokens,
     estimated_cost_usd |-> Round6(response.estimated_cost_usd)]

\* The dict run returns
RunResult(routing, response, answer) ==
    [answer |-> answer,
     model_used |-> response.model_name,
     complexity |-> routing.complexity,
     confidence |-> routing.confidence,
     tokens_used |-> routing.routing_tokens + response.total_tokens,
     estimated_cost_usd |->
         Round6(routing.routing_cost + response.estimated_cost_usd)]

(***************************************************************************)
(* CostTracker (src/agents/agent.py)                                       *)
(***************************************************************************)
CostRecord(result) ==
    [model_used |-> result.model_used, tokens_used |-> result.tokens_used,
     estimated_cost_usd |-> result.estimated_cost_usd,
     complexity |-> result.complexity]

\* Faulty variant of Record: the newest record is put first.
RecordNewestFirst(recs, result) == <<CostRecord(result)>> \o recs

\* CostTracker.record
Record(recs, result) == Append(recs, CostRecord(result))

\* Faulty variant of ResetRecords: the log survives a reset.
ResetRecordsKeeps(recs) == recs

\* CostTracker.reset
ResetRecords(recs) == <<>>

RECURSIVE SumOver(_, _)
SumOver(recs, field) ==
    IF recs = <<>> THEN 0 ELSE Head(recs)[field] + SumOver(Tail(recs), field)

Flash == <<"f","l","a","s","h">>

\* Faulty variant of ClampSavings: the savings are reported as computed.
ClampSavingsMissing(savings_pct) == savings_pct

\* max(savings_pct, 0.0)
ClampSavings(savings_pct) == Max(savings_pct, 0)

NoSummary ==
    [valid |-> FALSE, total_requests |-> 0, total_tokens |-> 0, total_cost_usd |-> 0,
     routed_to_small |-> 0, routed_to_large |-> 0, cost_savings_pct |-> 0]

\* CostTracker.get_summary.  hypothetical2 is twice the hypothetical cost in
\* nano-dollars; cost_savings_pct is in tenths of a percent.
GetSummary(recs, cfg) ==
    IF recs = <<>> THEN [NoSummary EXCEPT !.valid = TRUE]
    ELSE LET total_tokens == SumOver(recs, "tokens_used")
             actual_cost == SumOver(recs, "estimated_cost_usd")
             routed_small ==
                 Cardinality({i \in 1..Len(recs) :
                                Contains(Lower(recs[i].model_used), Flash)})
             routed_large == Len(recs) - routed_small
             hypothetical2 == total_tokens
                 * (cfg.models.large.cost_per_1k_input
                    + cfg.models.large.cost_per_1k_output)
             savings_pct ==
                 IF hypothetical2 > 0
                 THEN RoundDiv((hypothetical2 - 2 * actual_cost) * 1000, hypothetical2)
                 ELSE 0
         IN  [valid |-> TRUE,
              total_requests |-> Len(recs),
              total_tokens |-> total_tokens,
              total_cost_usd |-> Round6(actual_cost),
              routed_to_small |-> routed_small,
              routed_to_large |-> routed_large,
              cost_savings_pct |-> ClampSavings(savings_pct)]

(***************************************************************************)
(* State                                                                   *)
(***************************************************************************)
VARIABLES
    config,       \* the loaded configuration
    req,          \* per request: the position and locals of process_query / run
    models,       \* LLMClient._models: tier -> handle, 0 when absent
    constructed,  \* per tier, the number of ChatVertexAI constructions so far
    records,      \* CostTracker._records
    history,      \* the operations applied to the cost tracker, in call order
    summary,      \* the value the last operation returned, when it was get_summary
    validated,    \* a call of InputGuard.validate: its argument and what it gave
    sanitized     \* a call of OutputGuard.sanitize: its argument and what it gave

vars == <<config, req, models, constructed, records, history, summary,
          validated, sanitized>>

\* No call of InputGuard.validate / OutputGuard.sanitize on its own.
NoValidate == [called |-> FALSE, query |-> <<>>, ok |-> FALSE, error |-> "", value |-> <<>>]
NoSanitize == [called |-> FALSE, missing |-> FALSE, output |-> <<>>, value |-> <<>>]

IdleRequest ==
    [pc |-> "idle", query |-> <<>>, context |-> <<>>, force_model |-> NoForce,
     error |-> "", call |-> NoCall, router_content |-> <<>>,
     router_response |-> NoResponse, decision |-> NoDecision,
     routing |-> NoRouting, response |-> NoResponse, result |-> NoResult,
     steps |-> <<>>]

HistoryRecord(by, result) == [op |-> "record", by |-> by, result |-> result]
HistoryReset == [op |-> "reset", by |-> 0, result |-> NoResult]

(***************************************************************************)
(* Inputs                                                                  *)
(***************************************************************************)
QueryHi == <<"h","i">>
QueryBlank == <<" "," ">>
QueryInject == <<"Y","o","u"," ","A","R","E"," ","n","o","w">>
SomeContext == <<"c","t","x">>

Input(q, c, f) == [query |-> q, context |-> c, force_model |-> f]

\* The request bodies the overlapping requests carry.
RequestInputs ==
    { Input(QueryHi, <<>>, NoForce),
      Input(QueryHi, SomeContext, "medium"),
      Input(QueryHi, <<>>, "small"),
      Input(QueryHi, SomeContext, "large"),
      Input(QueryBlank, <<>>, NoForce),
      Input(QueryInject, <<>>, "small") }

Obj(f) == <<Lex("lbrace"), f, Lex("rbrace")>>

\* What the router tier answers in the request specification.
RouterTexts ==
    { Obj(Fields("SIMPLE", "number", 90)),
      Obj(Fields("MODERATE", "number", 60)),
      <<Lex("prose")>>,
      <<Lex("scalar")>> }

\* What the selected tier answers.
Answers == { <<>>, <<" ","o","k",".">> }

(***************************************************************************)
(* Actions.  Requests are coroutines on one event loop: each action is the *)
(* code that runs between two suspension points (await model.ainvoke).     *)
(***************************************************************************)
\* llm.invoke up to its await: _get_model, the input token estimate.
BeginInvoke(r, rec, tier, prompt, system_prompt, next_pc) ==
    LET g == GetModel(models, constructed, tier)
        input_tokens == EstimateTokens(system_prompt \o prompt)
    IN  /\ models' = g.models
        /\ constructed' = g.constructed
        /\ req' = [req EXCEPT ![r] =
               [rec EXCEPT !.pc = next_pc,
                           !.call = [tier |-> tier, handle |-> g.handle,
                                     input_tokens |-> input_tokens],
                           !.steps = Append(rec.steps, tier)]]

\* Faulty variant of Receive: the guard's verdict is not acted on.
ReceiveUnguarded(r, in) ==
    /\ req[r].pc = "idle"
    /\ LET rec == [req[r] EXCEPT !.query = in.query, !.context = in.context,
                                 !.force_model = in.force_model,
                                 !.steps = <<"validate">>]
       IN  IF in.force_model \in {"large", "small"}
           THEN BeginInvoke(r, [rec EXCEPT !.routing = ForcedRouting(in.force_model)],
                            in.force_model, FullPrompt(in.query, in.context),
                            config.agent_system, "await_answer")
           ELSE BeginInvoke(r, rec, "router", in.query,
                            config.router_system, "await_router")
    /\ UNCHANGED <<validated, sanitized, config, records, history, summary>>

\* process_query is called: run validates, then either starts the forced
\* tier's call or starts classify's router call.
Receive(r, in) ==
    /\ req[r].pc = "idle"
    /\ LET v == Validate(in.query, config.max_input_length)
           rec == [req[r] EXCEPT !.query = in.query, !.context = in.context,
                                 !.force_model = in.force_model,
                                 !.steps = <<"validate">>]
       IN  IF ~v.ok
           THEN /\ req' = [req EXCEPT ![r] =
                       [rec EXCEPT !.pc = "rejected", !.error = v.error]]
                /\ UNCHANGED <<models, constructed>>
           ELSE IF in.force_model \in {"large", "small"}
           THEN BeginInvoke(r, [rec EXCEPT !.routing = ForcedRouting(in.force_model)],
                            in.force_model, FullPrompt(in.query, in.context),
                            config.agent_system, "await_answer")
           ELSE BeginInvoke(r, rec, "router", in.query,
                            config.router_system, "await_router")
    /\ UNCHANGED <<validated, sanitized, config, records, history, summary>>

\* Faulty variant of RouterReturns: a router answer that cannot be parsed
\* makes the core ask the router again.
RouterReturnsRetry(r, content) ==
    /\ req[r].pc = "await_router"
    /\ LET resp == InvokeResponse(config, req[r].call, content)
           c == ClassifyContent(content, config.confidence_threshold)
           rec == [req[r] EXCEPT !.router_content = content,
                                 !.router_response = resp]
       IN  IF c.raised
           THEN /\ req' = [req EXCEPT ![r] =
                       [rec EXCEPT !.pc = "classify_raised", !.error = c.exc,
                                   !.call = NoCall]]
                /\ UNCHANGED <<models, constructed>>
           ELSE IF c.decision = FallbackDecision /\ Len(req[r].steps) < 3
           THEN BeginInvoke(r, rec, "router", req[r].query,
                            config.router_system, "await_router")
           ELSE BeginInvoke(r,
                    [rec EXCEPT !.decision = c.decision,
                                !.routing = ClassifiedRouting(c.decision, resp)],
                    c.decision.routed_to,
                    FullPrompt(req[r].query, req[r].context),
                    config.agent_system, "await_answer")
    /\ UNCHANGED <<validated, sanitized, config, records, history, summary>>

\* The router call returns: classify decides, run starts the selected tier's call.
RouterReturns(r, content) ==
    /\ req[r].pc = "await_router"
    /\ LET resp == InvokeResponse(config, req[r].call, content)
           c == ClassifyContent(content, config.confidence_threshold)
           rec == [req[r] EXCEPT !.router_content = content,
                                 !.router_response = resp]
       IN  IF c.raised
           THEN /\ req' = [req EXCEPT ![r] =
                       [rec EXCEPT !.pc = "classify_raised", !.error = c.exc,
                                   !.call = NoCall]]
                /\ UNCHANGED <<models, constructed>>
           ELSE BeginInvoke(r,
                    [rec EXCEPT !.decision = c.decision,
                                !.routing = ClassifiedRouting(c.decision, resp)],
                    c.decision.routed_to,
                    FullPrompt(req[r].query, req[r].context),
                    config.agent_system, "await_answer")
    /\ UNCHANGED <<validated, sanitized, config, records, history, summary>>

\* The selected tier's call returns: run sanitizes and returns its dict,
\* process_query records it.
AnswerReturns(r, content) ==
    /\ req[r].pc = "await_answer"
    /\ LET resp == InvokeResponse(config, req[r].call, content)
           answer == Sanitize(content, config.max_output_length)
           result == RunResult(req[r].routing, resp, answer)
       IN  /\ req' = [req EXCEPT ![r] =
                  [@ EXCEPT !.pc = "done", !.call = NoCall, !.response = resp,
                            !.result = result,
                            !.steps = @ \o <<"sanitize", "record">>]]
           /\ records' = Record(records, result)
           /\ history' = Append(history, HistoryRecord(r, result))
    /\ UNCHANGED <<validated, sanitized, config, models, constructed, summary>>

\* Faulty variant of CapabilityFails: the cost of the router call already made
\* is written to the log when the request fails.
CapabilityFailsPartialRecord(r) ==
    /\ req[r].pc \in {"await_router", "await_answer"}
    /\ req' = [req EXCEPT ![r] =
           [@ EXCEPT !.pc = "capability_failed", !.error = "capability",
                     !.call = NoCall]]
    /\ records' = Record(records,
                     [NoResult EXCEPT
                        !.tokens_used = req[r].routing.routing_tokens,
                        !.estimated_cost_usd = req[r].routing.routing_cost])
    /\ UNCHANGED <<validated, sanitized, config, models, constructed, history, summary>>

\* model.ainvoke raises: the exception leaves invoke, run and process_query.
CapabilityFails(r) ==
    /\ req[r].pc \in {"await_router", "await_answer"}
    /\ req' = [req EXCEPT ![r] =
           [@ EXCEPT !.pc = "capability_failed", !.error = "capability",
                     !.call = NoCall]]
    /\ UNCHANGED <<validated, sanitized, config, models, constructed, records, history, summary>>

\* The request's task is cancelled while it waits on model.ainvoke:
\* CancelledError leaves invoke, run and process_query (no handler catches it).
Abort(r) ==
    /\ req[r].pc \in {"await_router", "await_answer"}
    /\ req' = [req EXCEPT ![r] =
           [@ EXCEPT !.pc = "aborted", !.error = "cancelled", !.call = NoCall]]
    /\ UNCHANGED <<validated, sanitized, config, models, constructed, records, history, summary>>

Init ==
    /\ config \in Configs
    /\ req = [r \in Reqs |-> IdleRequest]
    /\ models = [t \in Tiers |-> 0]
    /\ constructed = [t \in Tiers |-> 0]
    /\ records = <<>>
    /\ history = <<>>
    /\ summary = NoSummary
    /\ validated = NoValidate
    /\ sanitized = NoSanitize

Next ==
    \E r \in Reqs :
        \/ \E in \in RequestInputs : Receive(r, in)
        \/ \E content \in RouterTexts : RouterReturns(r, content)
        \/ \E content \in Answers : AnswerReturns(r, content)
        \/ CapabilityFails(r)
        \/ Abort(r)

\* Overlapping requests served by process_query.
Spec == Init /\ [][Next]_vars


(***************************************************************************)
(* The classifier over the router outputs: one request, not forced, taken  *)
(* to its result, and every router output made of a payload inside a       *)
(* wrapper of prose, whitespace, code fences and stray braces.             *)
(***************************************************************************)
SeqsUpTo(S, n) == UNION {[1..k -> S] : k \in 0..n}

WrapLexemes == {Lex("prose"), Lex("ws"), Lex("fence"), Lex("lbrace"), Lex("rbrace")}

Wraps == SeqsUpTo(WrapLexemes, MaxWrap)

Complexities == {CxAbsent, "SIMPLE", "MODERATE", "COMPLEX", "EASY"}

Confidences ==
    {<<"absent", 0>>, <<"text", 0>>, <<"null", 0>>, <<"numstr", 90>>}
    \cup {<<"number", n>> : n \in {-10, 49, 50, 69, 70, 90, 150}}

FieldSet == {Fields(cx, cf[1], cf[2]) : cx \in Complexities, cf \in Confidences}

Payloads ==
    {<<>>, <<Lex("scalar")>>, <<Lex("null")>>, <<Lex("lbrace"), Lex("rbrace")>>}
    \cup {Obj(f) : f \in FieldSet}
    \cup {<<Lex("lbrace"), Fields("SIMPLE", "number", 90)>>}

AllRouterTexts == {pre \o body \o post : pre \in Wraps, body \in Payloads, post \in Wraps}

ClassifyReceive == Receive(1, Input(QueryHi, <<>>, NoForce))

ClassifyRouterReturns ==
    /\ req[1].pc = "await_router"
    /\ \E content \in AllRouterTexts : RouterReturns(1, content)

ClassifyAnswerReturns ==
    /\ req[1].pc = "await_answer"
    /\ \E content \in Answers : AnswerReturns(1, content)

NextClassify == ClassifyReceive \/ ClassifyRouterReturns \/ ClassifyAnswerReturns

SpecClassify == Init /\ [][NextClassify]_vars

(***************************************************************************)
(* The cost tracker on its own: any sequence of record, reset and          *)
(* get_summary, with record's argument drawn from TrackerResults.          *)
(***************************************************************************)
TrackerResult(model_used, tokens_used, cost) ==
    [answer |-> <<>>, model_used |-> model_used, complexity |-> "SIMPLE",
     confidence |-> 90, tokens_used |-> tokens_used, estimated_cost_usd |-> cost]

\* The results run can return under cfg: model_used is the configured name
\* of the tier that answered, small or large.
TrackerResults(cfg) ==
    {TrackerResult(cfg.models[t].name, tc[1], tc[2]) :
        t \in {"small", "large"},
        tc \in {<<0, 0>>, <<10, 1500>>, <<10, 40000>>}}

TrackerConfigs == Configs \cup {ConfigNoRates}

TrackerRecord(result) ==
    /\ Len(history) < MaxOps
    /\ records' = Record(records, result)
    /\ history' = Append(history, HistoryRecord(0, result))
    /\ summary' = NoSummary
    /\ UNCHANGED <<validated, sanitized, config, req, models, constructed>>

TrackerReset ==
    /\ Len(history) < MaxOps
    /\ records' = ResetRecords(records)
    /\ history' = Append(history, HistoryReset)
    /\ summary' = NoSummary
    /\ UNCHANGED <<validated, sanitized, config, req, models, constructed>>

TrackerGetSummary ==
    /\ summary' = GetSummary(records, config)
    /\ UNCHANGED <<validated, sanitized, config, req, models, constructed, records, history>>

InitTracker ==
    /\ config \in TrackerConfigs
    /\ req = [r \in Reqs |-> IdleRequest]
    /\ models = [t \in Tiers |-> 0]
    /\ constructed = [t \in Tiers |-> 0]
    /\ records = <<>>
    /\ history = <<>>
    /\ summary = NoSummary
    /\ validated = NoValidate
    /\ sanitized = NoSanitize

NextTracker ==
    \/ \E result \in TrackerResults(config) : TrackerRecord(result)
    \/ TrackerReset
    \/ TrackerGetSummary

SpecTracker == InitTracker /\ [][NextTracker]_vars


(***************************************************************************)
(* InputGuard.validate on its own: one call, on every query made of a core *)
(* text with up to MaxPad characters put before and after it.              *)
(***************************************************************************)
\* Most characters put before, and after, the core of a guard input.
MaxPad == 2

Repeat(c, n) == [i \in 1..n |-> c]

PadChars == {" ", "\n", "x"}

Pads == SeqsUpTo(PadChars, MaxPad)

QueryCores ==
    { <<>>,
      QueryHi,
      <<"a", " ", "b">>,
      Repeat("a", 12),
      Repeat("a", 17),
      Repeat(" ", 17),
      QueryInject,
      <<"y","o","u"," ","a","r","e"," ","n","o","w">>,
      <<"N","E","W"," ","I","n","s","t","r","u","c","t","i","o","n","s",":">>,
      <<"I","g","n","o","r","e"," ","p","r","e","v","i","o","u","s"," ","i","n","s","t","r","u","c","t","i","o","n","s">>,
      <<"i","g","n","o","r","e"," ","p","r","e","v","i","o","u","s"," "," ","i","n","s","t","r","u","c","t","i","o","n","s">> }

GuardQueries == {pre \o core \o post : pre \in Pads, core \in QueryCores, post \in Pads}

\* guardrails.max_input_length: 12 and 16 as in Configs, and one that lets
\* the long phrases through the length check.
GuardConfigs == Configs \cup {[ConfigDefault EXCEPT !.max_input_length = 32]}

\* input_guard.validate(query) is called and returns or raises.
GuardValidate ==
    /\ ~validated.called
    /\ LET v == Validate(validated.query, config.max_input_length)
       IN  validated' = [called |-> TRUE, query |-> validated.query,
                         ok |-> v.ok, error |-> v.error, value |-> v.value]
    /\ UNCHANGED <<config, req, models, constructed, records, history, summary,
                   sanitized>>

InitGuard ==
    /\ config \in GuardConfigs
    /\ req = [r \in Reqs |-> IdleRequest]
    /\ models = [t \in Tiers |-> 0]
    /\ constructed = [t \in Tiers |-> 0]
    /\ records = <<>>
    /\ history = <<>>
    /\ summary = NoSummary
    /\ validated \in {[NoValidate EXCEPT !.query = q] : q \in GuardQueries}
    /\ sanitized = NoSanitize

NextGuard == GuardValidate

SpecGuard == InitGuard /\ [][NextGuard]_vars


(***************************************************************************)
(* OutputGuard.sanitize on its own: one call, on no text at all or on a    *)
(* core text with up to MaxPad characters put before and after it.         *)
(***************************************************************************)
InstOpen == LeakPatterns[2][1]
InstClose == LeakPatterns[2][2]
SysOpen == LeakPatterns[3][1]
SysClose == LeakPatterns[3][2]

SanitizePadChars == {" ", "."}

SanitizePads == SeqsUpTo(SanitizePadChars, MaxPad)

OutputCores ==
    { <<>>,
      <<"o", "k", ".">>,
      Repeat(" ", 3),
      Repeat("a", 40),
      Repeat("a", 41),
      Repeat("a", 60),
      Repeat("a", 61),
      Repeat("a", 71),
      Repeat("a", 18) \o <<".">> \o Repeat("b", 60),
      Repeat("a", 45) \o <<".">> \o Repeat("b", 12),
      <<"o", "k">> \o Repeat(" ", 70),
      InstOpen \o <<"s", "\n", "t">> \o InstClose \o <<"o", "k">>,
      SysOpen \o Repeat("s", 50) \o SysClose \o <<"o", "k">>,
      InstOpen \o <<"a", "b", "c">>,
      SysOpen \o <<"s">> \o SysClose \o InstOpen \o <<"t">> \o InstClose,
      <<"[", "I", "N">> \o InstOpen \o <<"x">> \o InstClose
          \o <<"S", "T", "]", "s">> \o InstClose }

OutputTexts ==
    {pre \o core \o post : pre \in SanitizePads, core \in OutputCores,
                            post \in SanitizePads}

\* guardrails.max_output_length: 40 and 60 as in Configs, and 70.
SanitizeConfigs == Configs \cup {[ConfigDefault EXCEPT !.max_output_length = 70]}

\* sanitize(output) with output possibly None: `not output` holds for None
\* as for the empty string.
SanitizeCall(missing, output, max_output_length) ==
    IF missing THEN Apology ELSE Sanitize(output, max_output_length)

\* output_guard.sanitize(output) is called and returns.
SanitizeReturns ==
    /\ ~sanitized.called
    /\ sanitized' = [sanitized EXCEPT
           !.called = TRUE,
           !.value = SanitizeCall(sanitized.missing, sanitized.output,
                                  config.max_output_length)]
    /\ UNCHANGED <<config, req, models, constructed, records, history, summary,
                   validated>>

InitSanitize ==
    /\ config \in SanitizeConfigs
    /\ req = [r \in Reqs |-> IdleRequest]
    /\ models = [t \in Tiers |-> 0]
    /\ constructed = [t \in Tiers |-> 0]
    /\ records = <<>>
    /\ history = <<>>
    /\ summary = NoSummary
    /\ validated = NoValidate
    /\ sanitized \in {[NoSanitize EXCEPT !.output = t] : t \in OutputTexts}
                      \cup {[NoSanitize EXCEPT !.missing = TRUE]}

NextSanitize == SanitizeReturns

SpecSanitize == InitSanitize /\ [][NextSanitize]_vars


(***************************************************************************)
(* Properties                                                              *)
(***************************************************************************)
Started(r) == req[r].pc # "idle"

\* The positions in request r's step list that are Completion Capability calls.
InvokeSteps(r) == {i \in 1..Len(req[r].steps) : req[r].steps[i] \in Tiers}

\* The router call of request r has returned its response.
RouterReturned(r) == req[r].router_response # NoResponse

\* C1: no Completion Capability call of a request happens before
\* InputGuard.validate has accepted its query; a request whose query validate
\* rejects fails with the guard's error and has made no call at all.
C1_GuardBeforeInvocation ==
    \A r \in Reqs :
        LET v == Validate(req[r].query, config.max_input_length)
        IN  /\ \A i \in InvokeSteps(r) :
                   i > 1 /\ req[r].steps[1] = "validate" /\ v.ok
            /\ (Started(r) /\ ~v.ok) =>
                   /\ req[r].pc = "rejected"
                   /\ req[r].error = v.error
                   /\ req[r].error \in {ErrEmpty, ErrTooLong, ErrDisallowed}
                   /\ InvokeSteps(r) = {}
                   /\ req[r].call = NoCall

\* One request was rejected by the guard while another, accepted, has called.
C1_Witness ==
    \E r1, r2 \in Reqs :
        /\ req[r1].pc = "rejected" /\ req[r1].error = ErrDisallowed
        /\ InvokeSteps(r2) # {}

\* C2: when the router response parses to an object whose confidence is a
\* number (or is left to its default), classify returns a decision whose
\* routed_to is large exactly when the complexity is COMPLEX or the confidence
\* is strictly below confidence_threshold, and small otherwise; the decision
\* carries the parsed complexity and confidence.
C2_RoutingPolicy ==
    \A r \in Reqs :
        LET p == SafeJsonParse(req[r].router_content)
            d == req[r].decision
        IN  (RouterReturned(r) /\ p.type = "object"
             /\ p.cf_kind \in {"number", "numstr", "absent"}) =>
                /\ req[r].pc # "classify_raised"
                /\ d.routed_to \in {"large", "small"}
                /\ (d.routed_to = "large") <=>
                       (d.complexity = "COMPLEX"
                        \/ d.confidence < config.confidence_threshold)
                /\ (p.cx # CxAbsent) => (d.complexity = p.cx)
                /\ (p.cf_kind \in {"number", "numstr"}) => (d.confidence = p.cf)
                /\ req[r].routing.tier = d.routed_to

\* A label that is not COMPLEX with confidence equal to the threshold went to small.
C2_Witness ==
    \E r \in Reqs :
        /\ RouterReturned(r)
        /\ req[r].decision.complexity = "SIMPLE"
        /\ req[r].decision.confidence = config.confidence_threshold
        /\ req[r].decision.routed_to = "small"
        /\ req[r].call.tier = "small"

\* C3: when the router output cannot be parsed, classify returns the decision
\* COMPLEX / 0.5 / large together with the router call's response.
C3_ParseFailureFallback ==
    \A r \in Reqs :
        (RouterReturned(r) /\ SafeJsonParse(req[r].router_content).type = "null") =>
            /\ req[r].pc # "classify_raised"
            /\ req[r].decision.complexity = "COMPLEX"
            /\ req[r].decision.confidence = 50
            /\ req[r].decision.routed_to = "large"
            /\ req[r].routing.tier = "large"
            /\ req[r].routing.routing_tokens = req[r].router_response.total_tokens
            /\ req[r].routing.routing_cost = req[r].router_response.estimated_cost_usd
            /\ req[r].router_response.output_tokens = Len(req[r].router_content)

\* The router answered with prose only and the large tier was called.
C3_Witness ==
    \E r \in Reqs :
        /\ RouterReturned(r)
        /\ req[r].router_content = <<Lex("prose")>>
        /\ req[r].decision.routed_to = "large"
        /\ req[r].call.tier = "large"

\* C4: for an accepted, unforced query run never fails on classification:
\* whatever the router returned, classify yields a decision and run goes on
\* to the selected tier's call.
C4_ClassifyNeverRaises ==
    \A r \in Reqs :
        RouterReturned(r) =>
            /\ req[r].pc # "classify_raised"
            /\ req[r].decision # NoDecision
            /\ \E i \in InvokeSteps(r) : req[r].steps[i] \in {"small", "large"}

\* C5: with force_model small or large there is no router call, the forced
\* tier serves the one call, and the result is FORCED / 1.0 with the tokens
\* and cost of that call alone; with any other force_model the router is called.
C5_ForcedBypass ==
    \A r \in Reqs :
        (req[r].pc \notin {"idle", "rejected"}) =>
            IF req[r].force_model \in {"small", "large"}
            THEN /\ req[r].steps[2] = req[r].force_model
                 /\ \A i \in InvokeSteps(r) : i = 2
                 /\ req[r].router_response = NoResponse
                 /\ (req[r].pc = "done") =>
                        /\ req[r].result.complexity = "FORCED"
                        /\ req[r].result.confidence = 100
                        /\ req[r].result.tokens_used = req[r].response.total_tokens
                        /\ req[r].result.estimated_cost_usd
                               = req[r].response.estimated_cost_usd
                        /\ req[r].result.model_used
                               = config.models[req[r].force_model].name
            ELSE req[r].steps[2] = "router"

\* A forced request is done while a request with another force_model value
\* went through the router.
C5_Witness ==
    \E r1, r2 \in Reqs :
        /\ req[r1].pc = "done" /\ req[r1].force_model = "small"
        /\ req[r2].force_model = "medium" /\ RouterReturned(r2)

\* C6: a returned result's tokens_used is the sum of total_tokens over the
\* calls made for the request (the router call when classification ran, and
\* the selected tier's call), and its estimated_cost_usd is the sum of their
\* costs rounded to 6 decimals.
C6_OutcomeSumsCalls ==
    \A r \in Reqs :
        (req[r].pc = "done") =>
            LET classified == \E i \in InvokeSteps(r) : req[r].steps[i] = "router"
                rr == req[r].router_response
                ar == req[r].response
            IN  /\ Cardinality(InvokeSteps(r)) = (IF classified THEN 2 ELSE 1)
                /\ ar.total_tokens = ar.input_tokens + ar.output_tokens
                /\ rr.total_tokens = rr.input_tokens + rr.output_tokens
                /\ req[r].result.tokens_used
                       = (IF classified THEN rr.total_tokens ELSE 0) + ar.total_tokens
                /\ req[r].result.estimated_cost_usd
                       = Round6((IF classified THEN rr.estimated_cost_usd ELSE 0)
                                + ar.estimated_cost_usd)

\* A classified request is done and its router call cost something.
C6_Witness ==
    \E r \in Reqs :
        /\ req[r].pc = "done"
        /\ req[r].router_response.estimated_cost_usd > 0
        /\ req[r].router_response.total_tokens > 0
        /\ req[r].response.estimated_cost_usd > 0

\* The records appended since the most recent reset, from the history.
SinceReset(h) ==
    LET resets == {i \in 1..Len(h) : h[i].op = "reset"}
        last == IF resets = {} THEN 0
                ELSE CHOOSE i \in resets : \A j \in resets : j <= i
    IN  [i \in 1..(Len(h) - last) |-> h[last + i].result]

\* C7: get_summary reports the count, the token sum and the cost sum rounded
\* to 6 decimals over exactly the records appended since the most recent
\* reset; with none, every field is zero.
C7_SummaryTotals ==
    summary.valid =>
        LET live == SinceReset(history)
        IN  /\ summary.total_requests = Len(live)
            /\ summary.total_tokens = SumOver(live, "tokens_used")
            /\ summary.total_cost_usd = Round6(SumOver(live, "estimated_cost_usd"))
            /\ (live = <<>>) => (summary = [NoSummary EXCEPT !.valid = TRUE])

\* A summary taken right after a reset that followed a record.
C7_Witness ==
    /\ summary.valid
    /\ Len(history) >= 2
    /\ history[Len(history)].op = "reset"
    /\ history[1].op = "record"
    /\ history[1].result.estimated_cost_usd > 0
    /\ summary.total_requests = 0

\* C8: cost_savings_pct is never negative: it is
\* max(0, round((hypothetical - actual) / hypothetical * 100, 1)) when the
\* hypothetical all-large cost is positive, and 0 otherwise.
C8_SavingsNeverNegative ==
    summary.valid =>
        LET tokens == SumOver(records, "tokens_used")
            actual == SumOver(records, "estimated_cost_usd")
            rates == config.models.large.cost_per_1k_input
                     + config.models.large.cost_per_1k_output
            pct == RoundDiv((tokens * rates - 2 * actual) * 1000, tokens * rates)
        IN  /\ summary.cost_savings_pct >= 0
            /\ summary.cost_savings_pct
                   = (IF tokens * rates > 0 THEN (IF pct > 0 THEN pct ELSE 0) ELSE 0)

\* A summary of a log whose actual cost exceeds the positive baseline.
C8_Witness ==
    /\ summary.valid
    /\ SumOver(records, "tokens_used") > 0
    /\ config.models.large.cost_per_1k_input > 0
    /\ 2 * SumOver(records, "estimated_cost_usd")
           > SumOver(records, "tokens_used")
               * (config.models.large.cost_per_1k_input
                  + config.models.large.cost_per_1k_output)
    /\ summary.cost_savings_pct = 0

Done == {r \in Reqs : req[r].pc = "done"}

\* The cost log holds one record per completed request, in call order.
OneRecordPerCompleted ==
    /\ Len(records) = Cardinality(Done)
    /\ Len(history) = Len(records)
    /\ \A i \in 1..Len(history) :
           /\ history[i].op = "record"
           /\ history[i].by \in Done
           /\ records[i].model_used = req[history[i].by].result.model_used
           /\ records[i].tokens_used = req[history[i].by].result.tokens_used
           /\ records[i].estimated_cost_usd
                  = req[history[i].by].result.estimated_cost_usd
           /\ records[i].complexity = req[history[i].by].result.complexity
    /\ \A i, j \in 1..Len(history) : (history[i].by = history[j].by) => (i = j)

\* A step changes the log only by appending one record.
AppendOnly ==
    \/ records' = records
    \/ /\ Len(records') = Len(records) + 1
       /\ \A i \in 1..Len(records) : records'[i] = records[i]

\* C9: however overlapping requests interleave, the cost log holds exactly
\* one record per completed request, in the order of the record calls, and a
\* record call only appends.
C9_RecordLogAppendOnly == []OneRecordPerCompleted /\ [][AppendOnly]_vars

\* Two classified requests completed, the second one first.
C9_Witness ==
    /\ Len(history) = 2
    /\ history[1].by = 2 /\ history[2].by = 1
    /\ RouterReturned(1) /\ RouterReturned(2)
    /\ records[1] # records[2]

\* C10: each tier's model handle is constructed at most once, and every
\* call on a tier uses that one handle, also when several requests first use
\* the tier while others are in flight.
C10_SingleHandlePerTier ==
    /\ \A t \in Tiers : constructed[t] <= 1 /\ models[t] = constructed[t]
    /\ \A r \in Reqs :
           (req[r].call # NoCall) =>
               /\ req[r].call.handle = 1
               /\ req[r].call.handle = models[req[r].call.tier]

\* Two requests are in flight on the same tier at once.
C10_Witness ==
    \E r1, r2 \in Reqs :
        /\ r1 # r2
        /\ req[r1].call # NoCall
        /\ req[r1].call.tier = req[r2].call.tier
        /\ constructed[req[r1].call.tier] = 1

\* The requests that ended without a result: a Completion Capability call
\* failed, the request was aborted, or classify raised.
FailedPcs == {"capability_failed", "aborted", "classify_raised"}
Failed == {r \in Reqs : req[r].pc \in FailedPcs}

\* No record in the log was written for a failed request.
NoRecordForFailed ==
    /\ \A i \in 1..Len(history) : history[i].by \notin Failed
    /\ Len(records) = Len(history)

\* The step in which a request fails leaves the cost log as it was.
FailureLeavesLog ==
    (\E r \in Reqs : req[r].pc \notin FailedPcs /\ req'[r].pc \in FailedPcs)
        => (records' = records /\ history' = history)

\* C11: when a request is aborted or one of its Completion Capability calls
\* fails before the selected tier's call completes, no CostRecord is appended
\* for it and the cost log is unchanged, also when its router call had
\* already returned and cost something.
C11_NoRecordOnFailure == []NoRecordForFailed /\ [][FailureLeavesLog]_vars

\* One request failed in its answer call and another was aborted in it, both
\* after a router call that cost something, while the log is still empty.
C11_Witness ==
    \E r1, r2 \in Reqs :
        /\ req[r1].pc = "capability_failed" /\ req[r2].pc = "aborted"
        /\ req[r1].routing.routing_cost > 0
        /\ req[r2].routing.routing_cost > 0
        /\ records = <<>>

\* The positions where content holds an object with both members, every other
\* lexeme of content being prose, whitespace or a code fence.
WrappedObjectAt(content) ==
    {i \in 1..(Len(content) - 2) :
        /\ content[i].k = "lbrace"
        /\ content[i + 1].k = "fields"
        /\ content[i + 2].k = "rbrace"
        /\ \A j \in (1..Len(content)) \ {i, i + 1, i + 2} :
               content[j].k \in {"prose", "ws", "fence"}}

\* C12: when the router output is one valid object (a complexity label and a
\* numeric confidence) wrapped in explanatory prose or in code fences, classify
\* routes on that object's complexity and confidence and does not take the
\* parse-failure fallback.
C12_WrappedObjectParsed ==
    \A r \in Reqs :
        LET content == req[r].router_content
            at == WrappedObjectAt(content)
        IN  (RouterReturned(r) /\ at # {}) =>
                LET f == content[(CHOOSE i \in at : TRUE) + 1]
                IN  (f.cx # CxAbsent /\ f.cf_kind = "number") =>
                        /\ req[r].pc # "classify_raised"
                        /\ req[r].decision.reason # ParseFailureReason
                        /\ req[r].decision.complexity = f.cx
                        /\ req[r].decision.confidence = f.cf
                        /\ req[r].decision.routed_to
                               = RouteTo(f.cx, f.cf, config.confidence_threshold)

ComplexityLabels == {"SIMPLE", "MODERATE", "COMPLEX", "FORCED"}

\* C13: whatever the router tier returned, the routing values run works with
\* after step 2 and reports in its result have a complexity among SIMPLE,
\* MODERATE, COMPLEX and FORCED, a confidence in [0, 1], and a tier for the
\* answer call that is small or large.
C13_RoutingValuesWellFormed ==
    \A r \in Reqs :
        /\ (req[r].routing # NoRouting) =>
               /\ req[r].routing.complexity \in ComplexityLabels
               /\ req[r].routing.confidence >= 0
               /\ req[r].routing.confidence <= 100
               /\ req[r].routing.tier \in {"small", "large"}
        /\ (req[r].pc = "done") =>
               /\ req[r].result.complexity \in ComplexityLabels
               /\ req[r].result.confidence >= 0
               /\ req[r].result.confidence <= 100
               /\ \E t \in {"small", "large"} :
                      req[r].result.model_used = config.models[t].name

\* Some character of q is not whitespace.
NonBlank(q) == \E i \in 1..Len(q) : q[i] \notin Whitespace

\* The lower-cased form of q contains an injection phrase.
HasInjectionPhrase(q) == \E p \in InjectionPatterns : Contains(Lower(q), p)

\* v is q without its leading and trailing whitespace, and nothing else changed.
IsTrimOf(v, q) ==
    /\ Len(v) > 0
    /\ v[1] \notin Whitespace
    /\ v[Len(v)] \notin Whitespace
    /\ \E i \in 0..(Len(q) - Len(v)) :
           /\ MatchAt(q, v, i + 1)
           /\ \A k \in 1..i : q[k] \in Whitespace
           /\ \A k \in (i + Len(v) + 1)..Len(q) : q[k] \in Whitespace

\* C14: a query that is not blank, is no longer than max_input_length and
\* holds no injection phrase in its lower-cased form is accepted, and validate
\* returns it with the surrounding whitespace removed and nothing else changed.
C14_ValidQueryTrimmed ==
    validated.called =>
        LET q == validated.query
        IN  (NonBlank(q) /\ Len(q) <= config.max_input_length
             /\ ~HasInjectionPhrase(q)) =>
                /\ validated.ok
                /\ IsTrimOf(validated.value, q)

\* A padded query of exactly the maximum length was accepted and trimmed.
C14_Witness ==
    /\ validated.called /\ validated.ok
    /\ Len(validated.query) = config.max_input_length
    /\ validated.query[1] \in Whitespace
    /\ Len(validated.value) < Len(validated.query)

\* C15 as stated: every query longer than max_input_length fails with the
\* maximum-length error, whatever else it contains.
C15_TooLongAlways ==
    (validated.called /\ Len(validated.query) > config.max_input_length) =>
        (~validated.ok /\ validated.error = ErrTooLong)

\* C15 as amended: every query longer than max_input_length that is not
\* blank fails with the maximum-length error, whatever else it contains
\* (an injection phrase included).
C15_TooLongUnlessBlank ==
    (/\ validated.called
     /\ Len(validated.query) > config.max_input_length
     /\ NonBlank(validated.query)) =>
        (~validated.ok /\ validated.error = ErrTooLong)

\* A query that is too long and holds an injection phrase failed as too long.
C15_Witness ==
    /\ validated.called
    /\ Len(validated.query) > config.max_input_length
    /\ HasInjectionPhrase(validated.query)
    /\ validated.error = ErrTooLong

\* C16 as stated: every query whose lower-cased form contains an injection
\* phrase fails with the disallowed-patterns error.
C16_InjectionAlwaysDisallowed ==
    (validated.called /\ HasInjectionPhrase(validated.query)) =>
        (~validated.ok /\ validated.error = ErrDisallowed)

\* C16 as amended: every query no longer than max_input_length whose
\* lower-cased form contains an injection phrase fails with the
\* disallowed-patterns error, whatever the letter case and wherever the
\* phrase occurs.
C16_InjectionDisallowedWithinLength ==
    (/\ validated.called
     /\ HasInjectionPhrase(validated.query)
     /\ Len(validated.query) <= config.max_input_length) =>
        (~validated.ok /\ validated.error = ErrDisallowed)

\* A phrase typed in mixed case between other characters was refused.
C16_Witness ==
    /\ validated.called
    /\ validated.error = ErrDisallowed
    /\ validated.query # Lower(validated.query)
    /\ validated.query[1] = "x"
    /\ validated.query[Len(validated.query)] = "x"

\* C17: a query that is empty or all whitespace fails with the empty-query
\* error, and validate never returns the empty string.
C17_BlankRejected ==
    validated.called =>
        /\ (~NonBlank(validated.query)) =>
               (~validated.ok /\ validated.error = ErrEmpty)
        /\ validated.ok => Len(validated.value) > 0

\* A query of whitespace only, longer than the maximum, failed as empty.
C17_Witness ==
    /\ validated.called
    /\ Len(validated.query) > config.max_input_length
    /\ ~NonBlank(validated.query)
    /\ validated.error = ErrEmpty

TryAgain == <<"t","r","y"," ","a","g","a","i","n">>

\* s ends with p
EndsWith(s, p) == Len(s) >= Len(p) /\ MatchAt(s, p, Len(s) - Len(p) + 1)

\* C18: every call of sanitize ends by returning a text (no path of it
\* raises), and for an empty or missing input the text is the fixed apology,
\* which contains "try again" when lower-cased.
C18_SanitizeTotalWithApology ==
    sanitized.called =>
        /\ DOMAIN sanitized.value = 1..Len(sanitized.value)
        /\ \A i \in 1..Len(sanitized.value) : sanitized.value[i] \in STRING
        /\ (sanitized.missing \/ Len(sanitized.output) = 0) =>
               /\ sanitized.value = Apology
               /\ Contains(Lower(sanitized.value), TryAgain)

\* The call with no text at all returned the apology.
C18_Witness ==
    /\ sanitized.called /\ sanitized.missing
    /\ sanitized.value = Apology

\* text holds an opening leak marker followed, later on, by its closing marker.
HasLeakSpan(text) ==
    \E k \in 1..Len(LeakPatterns) :
        \E i \in 1..Len(text) :
            /\ MatchAt(text, LeakPatterns[k][1], i)
            /\ \E j \in (i + Len(LeakPatterns[k][1]))..Len(text) :
                   MatchAt(text, LeakPatterns[k][2], j)

\* C19: the text sanitize returns holds no paired instruction-leak span.
C19_NoLeakSpanLeft ==
    sanitized.called => ~HasLeakSpan(sanitized.value)

AnsweredBy(recs, t) ==
    Cardinality({i \in 1..Len(recs) : recs[i].model_used = config.models[t].name})

\* C21: in every summary routed_to_small is the number of recorded requests
\* answered by the small tier and routed_to_large the number answered by the
\* large tier, whatever the tiers' model names are, and the two add up to
\* total_requests.
C21_RoutedCountsByTier ==
    summary.valid =>
        /\ summary.routed_to_small = AnsweredBy(records, "small")
        /\ summary.routed_to_large = AnsweredBy(records, "large")
        /\ summary.routed_to_small + summary.routed_to_large = summary.total_requests

\* s is a prefix of t
IsPrefix(s, t) == Len(s) <= Len(t) /\ \A i \in 1..Len(s) : s[i] = t[i]

\* The full step sequences a request may run through: validate, the router
\* call unless a tier is forced, the call of the selected tier, sanitize, record.
FullStepLists(r) ==
    IF req[r].force_model \in {"small", "large"}
    THEN {<<"validate", req[r].force_model, "sanitize", "record">>}
    ELSE {<<"validate", "router", t, "sanitize", "record">> : t \in {"small", "large"}}

\* The steps taken so far are the beginning of a full step sequence; a request
\* that failed stopped before sanitize and record, and a completed one ran all.
StepsInOrder ==
    \A r \in Reqs :
        Started(r) =>
            /\ \E full \in FullStepLists(r) : IsPrefix(req[r].steps, full)
            /\ (req[r].pc = "rejected") => (req[r].steps = <<"validate">>)
            /\ (req[r].pc \in FailedPcs) =>
                   /\ req[r].steps[Len(req[r].steps)] \in Tiers
                   /\ \A i \in 1..Len(req[r].steps) :
                          req[r].steps[i] \notin {"sanitize", "record"}
            /\ (req[r].pc = "done") => (req[r].steps \in FullStepLists(r))

\* A step of the system only adds steps at the end of a request's list, and
\* adds none to a request that has failed.
StepsOnlyGrow ==
    \A r \in Reqs :
        /\ IsPrefix(req[r].steps, req'[r].steps)
        /\ (req[r].pc \in FailedPcs \cup {"rejected"}) => (req'[r] = req[r])

\* C22: within a request the steps run in the order validate, router call
\* (only when no tier is forced), selected tier's call, sanitize, record, each
\* at most once; a failed step is not retried and no later step of the request
\* runs after a failure.
C22_StepsInFixedOrder == []StepsInOrder /\ [][StepsOnlyGrow]_vars

\* One request ran all five steps while another stopped at its failed router call.
C22_Witness ==
    \E r1, r2 \in Reqs :
        /\ req[r1].steps = <<"validate", "router", "small", "sanitize", "record">>
        /\ req[r2].pc = "capability_failed"
        /\ req[r2].steps = <<"validate", "router">>

\* C23: whatever the text and the configured max_output_length, what sanitize
\* returns, the truncation marker included, is no longer than max_output_length.
C23_ResultWithinMaxLength ==
    sanitized.called => (Len(sanitized.value) <= config.max_output_length)

\* C24: sanitize never returns the empty text: a text of whitespace only, or
\* one made up of instruction-leak spans only, comes back as the apology, as
\* the empty text does.
C24_NeverEmpty ==
    sanitized.called =>
        /\ Len(sanitized.value) > 0
        /\ (~sanitized.missing
            /\ Len(RemoveInstructionLeakage(Strip(sanitized.output))) = 0) =>
               (sanitized.value = Apology)

====
